---- MODULE Spec2Model ----
(***************************************************************************)
(* Fetch: the line-oriented command language of the Marionette firmware.   *)
(* fetch_parse splits a line into colon-separated command tokens and       *)
(* space-separated data tokens that live in static buffers, fetch_dispatch *)
(* looks the first token up in the command vocabulary and calls the        *)
(* handler bound to it, and fetch_gpio drives the pin hardware.            *)
(*                                                                         *)
(* C strings are sequences of one-character strings; NUL is the empty      *)
(* string. A static array of N elements is a sequence of length N whose    *)
(* element of C index p is read by Rd(a, p) and written by Wr(a, p, v).    *)
(* A char* kept in command_toks / data_toks is an offset into commandstr / *)
(* datastr, or NULLP, or LIT (the address of the string literal "\0").     *)
(***************************************************************************)
EXTENDS Integers, Sequences, FiniteSets, TLC

VARIABLES
    localinput,     \* static char localinput[FETCH_MAX_LINE_CHARS]
    commandstr,     \* static char commandstr[FETCH_MAX_LINE_CHARS]
    datastr,        \* static char datastr[FETCH_MAX_LINE_CHARS]
    command_toks,   \* char * command_toks[FETCH_MAX_LINE_CHARS]
    data_toks,      \* char * data_toks[FETCH_MAX_LINE_CHARS]
    cmd_fns,        \* the handler table filled by fetch_init_cmd_fns
    halted,         \* the debug assertion of fetch_token_match has stopped the system
    line,           \* the inputline of the last fetch_parse call
    obs,            \* what the last fetch_parse call did and returned
    nlines,         \* number of lines parsed so far
    tm              \* one direct call of fetch_token_match: vocabulary, token, result

vars == <<localinput, commandstr, datastr, command_toks, data_toks, cmd_fns,
          halted, line, obs, nlines, tm>>

----------------------------------------------------------------------------
(* Program constants *)

FETCH_MAX_COMMANDS == 8
FETCH_MAX_LINE_CHARS == 256
FETCH_MAX_CMD_STRLEN == 25
MAX_PIN_STR_LEN == 8

\* positions of the gpio sub-tokens in the command-token list
ACTION_TOK == 1    \* ACTION in the source (a reserved word here)
PORT == 2
PIN == 3
DIRECTION == 4
SENSE == 5

----------------------------------------------------------------------------
(* Characters and C strings *)

NUL == ""

\* the characters of a string literal
S(str) == SubSeq([i \in 1..Len(str) |-> SubSeq(str, i, i)], 1, Len(str))

UpperChars == S("ABCDEFGHIJKLMNOPQRSTUVWXYZ")
LowerChars == S("abcdefghijklmnopqrstuvwxyz")

UpperSet == {UpperChars[i] : i \in 1..26}
ToLowerTable == [c \in UpperSet |-> LowerChars[CHOOSE i \in 1..26 : UpperChars[i] = c]]

tolower(c) == IF c \in UpperSet THEN ToLowerTable[c] ELSE c

isspace(c) == c \in {" ", "\t", "\n", "\r", "\f"}

\* the character at 1-based position i of a C string: NUL at its end
At(s, i) == IF i <= Len(s) THEN s[i] ELSE NUL

Max(a, b) == IF a >= b THEN a ELSE b
Min(a, b) == IF a <= b THEN a ELSE b

strlen(s) == Len(s)

RECURSIVE strncasecmp_from(_, _, _, _)
strncasecmp_from(s1, s2, n, i) ==
    IF i > n THEN 0
    ELSE LET c1 == tolower(At(s1, i))
             c2 == tolower(At(s2, i))
         IN  IF c1 # c2 THEN 1
             ELSE IF c1 = NUL THEN 0
             ELSE strncasecmp_from(s1, s2, n, i + 1)

\* 0 when the first n characters agree without regard to case, 1 otherwise
strncasecmp(s1, s2, n) == strncasecmp_from(s1, s2, n, 1)

\* length of the longer string, capped at max_length
get_longest_str_length(s1, s2, max_length) ==
    Min(max_length, Max(strlen(s1), strlen(s2)))

----------------------------------------------------------------------------
(* fetch_terminals *)

Strs(names) == SubSeq([i \in 1..Len(names) |-> S(names[i])], 1, Len(names))

command_vocab == Strs(<<"?", "help", "gpio", "adc", "spi", "i2c", "resetpins">>)
gpio_subcommandA == Strs(<<"get", "set", "clear", "configure">>)
gpio_direction == Strs(<<"input", "output">>)
gpio_sense == Strs(<<"pullup", "pulldown", "floating", "analog">>)
port_subcommand ==
    Strs(<<"porta", "portb", "portc", "portd", "porte", "portf", "portg",
           "porth", "porti">>)
pin_subcommand ==
    Strs(<<"pin0", "pin1", "pin2", "pin3", "pin4", "pin5", "pin6", "pin7",
           "pin8", "pin9", "pin10", "pin11", "pin12", "pin13", "pin14",
           "pin15">>)

\* NELEMS(array): the vocabularies hold exactly their initialisers
NELEMS(tok_array) == Len(tok_array)

----------------------------------------------------------------------------
(* fetch_token_match: index (from 0) of the first entry that matches       *)
(* chk_tok, -1 when none does. chk_tok is a string here; the NULL pointer  *)
(* is dealt with where the pointer is dereferenced (fetch_is_valid).       *)

\* fetch_token_match_from comparing over the length of the vocabulary
\* entry alone, so that an entry matches every token it is a prefix of
RECURSIVE fetch_token_match_prefix(_, _, _, _)
fetch_token_match_prefix(tok_array, chk_tok, num_elems, i) ==
    IF i >= num_elems THEN -1
    ELSE IF strncasecmp(tok_array[i + 1], chk_tok, strlen(tok_array[i + 1])) = 0
    THEN i
    ELSE fetch_token_match_prefix(tok_array, chk_tok, num_elems, i + 1)

RECURSIVE fetch_token_match_from(_, _, _, _)
fetch_token_match_from(tok_array, chk_tok, num_elems, i) ==
    IF i >= num_elems THEN -1
    ELSE LET maxlen == get_longest_str_length(tok_array[i + 1], chk_tok,
                                              FETCH_MAX_CMD_STRLEN)
         IN  IF strncasecmp(tok_array[i + 1], chk_tok, maxlen) = 0
             THEN i
             ELSE fetch_token_match_from(tok_array, chk_tok, num_elems, i + 1)

fetch_token_match(tok_array, chk_tok, num_elems) ==
    fetch_token_match_from(tok_array, chk_tok, num_elems, 0)

----------------------------------------------------------------------------
(* Static buffers and the pointers kept into them *)

NULLP == -1     \* the NULL pointer
LIT == -2       \* the address of the string literal "\0": an empty string

\* element p (a C index, from 0) of an array, and the array with it written
Rd(a, p) == a[p + 1]
Wr(a, p, v) == [a EXCEPT ![p + 1] = v]

\* n elements v
Fill(n, v) == SubSeq([i \in 1..n |-> v], 1, n)

\* static storage is zero-initialised
ZeroBuf == Fill(FETCH_MAX_LINE_CHARS, NUL)
ZeroToks == Fill(FETCH_MAX_LINE_CHARS, NULLP)

\* A read or write at an offset of FETCH_MAX_LINE_CHARS or more is outside
\* the buffer: undefined behaviour. Either the access stops the system
\* ("fault"), or it goes to the memory behind the buffer, which is not part of
\* the buffer's state: a byte read there is NUL and a byte written there
\* leaves the buffer as it is ("nul").
OutOfBoundsOutcomes == {"fault", "nul"}

\* the byte read at offset p
Byte(buf, p) == IF p < Len(buf) THEN Rd(buf, p) ELSE NUL

\* the buffer after a byte is written at offset p
WrByte(buf, p, v) == IF p < Len(buf) THEN Wr(buf, p, v) ELSE buf

\* a scan from offset p that ends at a character of stops reads past the
\* end of the buffer
RunsOff(buf, p, stops) == \A i \in p..(Len(buf) - 1) : Rd(buf, i) \notin stops

\* the first offset from p on whose byte is in stops (NUL is in stops)
ScanTo(buf, p, stops) ==
    CHOOSE i \in p..Len(buf) :
        Byte(buf, i) \in stops /\ \A j \in p..(i - 1) : Byte(buf, j) \notin stops

\* the first offset from p on whose byte is not in skip (NUL is not in skip)
ScanPast(buf, p, skip) ==
    CHOOSE i \in p..Len(buf) :
        Byte(buf, i) \notin skip /\ \A j \in p..(i - 1) : Byte(buf, j) \in skip

\* strlen of the C string that starts at offset p of buf
strlen_at(buf, p) == ScanTo(buf, p, {NUL}) - p

\* the C string that starts at offset p of buf
CStr(buf, p) == SubSeq(buf, p + 1, p + strlen_at(buf, p))

\* the string a token pointer refers to (p is not NULL)
Deref(buf, p) == IF p = LIT THEN <<>> ELSE CStr(buf, p)

\* strncpy(dst, src, n): n characters, NUL-padded after the end of src,
\* and no terminator when src has n characters or more
strncpy(dst, src, n) ==
    LET k == Min(n, strlen(src))
    IN  SubSeq(src, 1, k) \o Fill(n - k, NUL) \o SubSeq(dst, n + 1, Len(dst))

\* the number of leading characters at offset p that are in delim
strspn(buf, p, delim) == ScanPast(buf, p, delim) - p

\* the offset i at which the search of strpbrk ended, or NULL
strpbrk_end(buf, i) == IF Byte(buf, i) = NUL THEN NULLP ELSE i

\* the first character at or behind offset p that is in delim, NULL when
\* the string ends before one
strpbrk(buf, p, delim) ==
    strpbrk_end(buf, ScanTo(buf, p, delim \cup {NUL}))

\* _strtok(str, delim, &saveptr) on the buffer buf: the token found, the
\* buffer with the token's terminator written, the new saveptr, and whether
\* the scan read past the end of the buffer
\* if (*saveptr) *(*saveptr)++ = '\0'; return *token ? token : NULL;
strtok_end(buf, token, brk, off) ==
    [tok |-> IF Byte(buf, token) # NUL THEN token ELSE NULLP,
     buf |-> buf,
     saveptr |-> IF brk # NULLP THEN brk + 1 ELSE NULLP,
     oob |-> off]

\* *saveptr = strpbrk(token, delim), written over with the terminator
strtok_brk(buf, token, brk, off) ==
    strtok_end(IF brk # NULLP THEN Wr(buf, brk, NUL) ELSE buf, token, brk, off)

\* token is behind the leading delimiters here
strtok_from(buf, token, delim) ==
    strtok_brk(buf, token, strpbrk(buf, token, delim),
               RunsOff(buf, token, delim \cup {NUL}))

\* token += strspn(token, delim)
strtok_at(buf, token, delim) ==
    strtok_from(buf, token + strspn(buf, token, delim), delim)

_strtok(buf, str, delim, saveptr) ==
    LET token == IF str # NULLP THEN str ELSE saveptr
    IN  IF token = NULLP
        THEN [tok |-> NULLP, buf |-> buf, saveptr |-> token, oob |-> FALSE]
        ELSE strtok_at(buf, token, delim)

\* fetch_remove_spaces(s): the string at the start of buf without its
\* whitespace, in place; the bytes behind the new terminator stay
StoreString(buf, t) ==
    SubSeq(t \o <<NUL>> \o SubSeq(buf, Len(t) + 2, Len(buf)), 1, Len(buf))

fetch_remove_spaces(buf) ==
    StoreString(buf, SelectSeq(CStr(buf, 0), LAMBDA c : ~isspace(c)))

----------------------------------------------------------------------------
(* Hardware calls (the PAL driver) and handler results *)

HwCall(op, port, pin, mode) == [op |-> op, port |-> port, pin |-> pin, mode |-> mode]

\* what a handler did: its return value, the hardware calls it made, the
\* messages it printed, whether fetch_token_match was handed a NULL token
\* and whether that stopped the system
Result(ret, hw, msgs, nullmatch, halt) ==
    [ret |-> ret, hw |-> hw, msgs |-> msgs, nullmatch |-> nullmatch, halt |-> halt]

\* A NULL chk_tok: with debug assertions compiled in, chDbgAssert stops the
\* system ("halt"); without them the token is read through the NULL pointer,
\* which either faults ("halt") or compares unequal to every entry ("nomatch").
NullTokenOutcomes == {"halt", "nomatch"}

\* fetch_is_valid_<vocabulary>(chp, tok): fetch_token_match on the token
\* that the pointer p refers to
fetch_is_valid(tok_array, buf, p, ub) ==
    IF p = NULLP
    THEN [null |-> TRUE, halt |-> (ub.null = "halt"), idx |-> -1]
    ELSE [null |-> FALSE, halt |-> FALSE,
          idx |-> fetch_token_match(tok_array, Deref(buf, p), NELEMS(tok_array))]

\* fetch_is_valid_command matching a token by its prefix
fetch_is_valid_command_prefix(buf, p, ub) ==
    IF p = NULLP
    THEN [null |-> TRUE, halt |-> (ub.null = "halt"), idx |-> -1]
    ELSE [null |-> FALSE, halt |-> FALSE,
          idx |-> fetch_token_match_prefix(command_vocab, Deref(buf, p),
                                           NELEMS(command_vocab), 0)]

fetch_is_valid_command(buf, p, ub) == fetch_is_valid(command_vocab, buf, p, ub)
fetch_is_valid_gpio_subcommandA(buf, p, ub) == fetch_is_valid(gpio_subcommandA, buf, p, ub)
fetch_is_valid_port_subcommand(buf, p, ub) == fetch_is_valid(port_subcommand, buf, p, ub)
fetch_is_valid_pin_subcommand(buf, p, ub) == fetch_is_valid(pin_subcommand, buf, p, ub)

----------------------------------------------------------------------------
(* gpio.c *)

GPIOPorts == <<"GPIOA", "GPIOB", "GPIOC", "GPIOD", "GPIOE", "GPIOF", "GPIOG",
               "GPIOH", "GPIOI">>

SetMin(s) == CHOOSE x \in s : \A y \in s : x <= y

\* the if / else-if chain over "porta" .. "porti"; port stays NULL when no
\* branch is taken
\* the port of the first branch taken
PortOf(hit) == IF hit = {} THEN "NULL" ELSE GPIOPorts[SetMin(hit)]

gpio_get_port(tok) ==
    PortOf({i \in 1..Len(port_subcommand) :
               strncasecmp(tok, port_subcommand[i], strlen(S("porta"))) = 0})

\* the comparison length the chain uses for "pin<k>"
PinCmpLen(k, maxlen) == IF k = 8 THEN maxlen + 5 ELSE maxlen

\* the pin of the first branch taken
PinOf(hit) == IF hit = {} THEN 0 ELSE SetMin(hit)

\* gpio_get_pin comparing every pin name over four characters only
gpio_get_pin_len4(tok) ==
    PinOf({k \in 0..9 : strncasecmp(tok, pin_subcommand[k + 1], 4) = 0})

\* the two if / else-if chains over "pin0" .. "pin9" and "pin10" .. "pin15";
\* pin stays 0 when no branch is taken
gpio_get_pin_chain(tok, maxlen) ==
    PinOf({k \in (IF maxlen = 4 THEN 0..9 ELSE 10..15) :
              strncasecmp(tok, pin_subcommand[k + 1], PinCmpLen(k, maxlen)) = 0})

gpio_get_pin(tok) ==
    gpio_get_pin_chain(tok, get_longest_str_length(tok, S("pinX"), MAX_PIN_STR_LEN))

gpio_get_port_pin(buf, commandl) ==
    [port |-> gpio_get_port(Deref(buf, Rd(commandl, PORT))),
     pin |-> gpio_get_pin(Deref(buf, Rd(commandl, PIN)))]

\* the one PAL call of an action on the port and pin found
PadCall(op, pp, mode) == <<HwCall(op, pp.port, pp.pin, mode)>>

gpio_get(buf, commandl) == PadCall("palReadPad", gpio_get_port_pin(buf, commandl), "-")

gpio_set(buf, commandl) == PadCall("palSetPad", gpio_get_port_pin(buf, commandl), "-")

gpio_clear(buf, commandl) == PadCall("palClearPad", gpio_get_port_pin(buf, commandl), "-")

gpio_config_direction(tok) ==
    IF strncasecmp(tok, S("input"), strlen(S("input"))) = 0 THEN "PAL_STM32_MODE_INPUT"
    ELSE IF strncasecmp(tok, S("output"), strlen(S("output"))) = 0 THEN "PAL_STM32_MODE_OUTPUT"
    ELSE "0"

gpio_config_sense(tok) ==
    IF strncasecmp(tok, S("pullup"), strlen(S("pullup"))) = 0 THEN "PAL_STM32_PUDR_PULLUP"
    ELSE IF strncasecmp(tok, S("pulldown"), strlen(S("pulldown"))) = 0 THEN "PAL_STM32_PUDR_PULLDOWN"
    ELSE IF strncasecmp(tok, S("floating"), strlen(S("floating"))) = 0 THEN "PAL_STM32_PUDR_FLOATING"
    ELSE IF strncasecmp(tok, S("analog"), strlen(S("analog"))) = 0 THEN "PAL_STM32_MODE_ANALOG"
    ELSE "0"

\* palSetPadMode(port, pin, direction | sense)
gpio_config(buf, commandl) ==
    PadCall("palSetPadMode", gpio_get_port_pin(buf, commandl),
            [direction |-> gpio_config_direction(Deref(buf, Rd(commandl, DIRECTION))),
             sense |-> gpio_config_sense(Deref(buf, Rd(commandl, SENSE)))])

----------------------------------------------------------------------------
(* Command handlers *)

fetch_not_yet == Result("false", <<>>, <<"Not implemented">>, FALSE, FALSE)

fetch_info == Result("true", <<>>, <<"Fetch commandstr Help">>, FALSE, FALSE)

fetch_resetpins ==
    Result("true", <<HwCall("palInit", "-", "-", "-")>>, <<"Resetting pins">>, FALSE, FALSE)

\* the branch of fetch_gpio taken once action, port and pin are valid
fetch_gpio_branch(buf, cmd_list, act) ==
    IF strncasecmp(act, S("get"), strlen(S("get"))) = 0
    THEN Result("true", gpio_get(buf, cmd_list), <<"%d">>, FALSE, FALSE)
    ELSE IF strncasecmp(act, S("set"), strlen(S("set"))) = 0
    THEN Result("true", gpio_set(buf, cmd_list), <<>>, FALSE, FALSE)
    ELSE IF strncasecmp(act, S("clear"), strlen(S("clear"))) = 0
    THEN Result("true", gpio_clear(buf, cmd_list), <<>>, FALSE, FALSE)
    ELSE IF strncasecmp(act, S("config"), strlen(S("config"))) = 0
    THEN IF Rd(cmd_list, DIRECTION) # NULLP /\ Rd(cmd_list, SENSE) # NULLP
         THEN Result("true", gpio_config(buf, cmd_list), <<>>, FALSE, FALSE)
         ELSE Result("false", <<>>, <<>>, FALSE, FALSE)
    ELSE Result("true", <<>>, <<"Not implemented">>, FALSE, FALSE)

fetch_gpio_action(buf, cmd_list) ==
    fetch_gpio_branch(buf, cmd_list, Deref(buf, Rd(cmd_list, 1)))

\* a handler that returns false having printed nothing
HandlerFails(null) == Result("false", <<>>, <<>>, null, FALSE)

\* the system stopped inside fetch_token_match
HandlerStops == Result("halt", <<>>, <<>>, TRUE, TRUE)

\* fetch_gpio_checked without the test of the pin token
fetch_gpio_checked_no_pin(buf, cmd_list, a, p, q) ==
    IF a.halt THEN HandlerStops
    ELSE IF a.idx < 0 THEN HandlerFails(a.null)
    ELSE IF p.halt THEN HandlerStops
    ELSE IF p.idx < 0 THEN HandlerFails(p.null)
    ELSE fetch_gpio_action(buf, cmd_list)

\* a, p, q: the validity of the action, port and pin tokens, tested in order
fetch_gpio_checked(buf, cmd_list, a, p, q) ==
    IF a.halt THEN HandlerStops
    ELSE IF a.idx < 0 THEN HandlerFails(a.null)
    ELSE IF p.halt THEN HandlerStops
    ELSE IF p.idx < 0 THEN HandlerFails(p.null)
    ELSE IF q.halt THEN HandlerStops
    ELSE IF q.idx < 0 THEN HandlerFails(q.null)
    ELSE fetch_gpio_action(buf, cmd_list)

fetch_gpio(buf, cmd_list, ub) ==
    fetch_gpio_checked(buf, cmd_list,
        fetch_is_valid_gpio_subcommandA(buf, Rd(cmd_list, ACTION_TOK), ub),
        fetch_is_valid_port_subcommand(buf, Rd(cmd_list, PORT), ub),
        fetch_is_valid_pin_subcommand(buf, Rd(cmd_list, PIN), ub))

\* fetch_init_cmd_fns: the handler bound to each entry of the command
\* vocabulary, by comparing the entry with the handled names
fetch_init_cmd_fns ==
    LET fn(name) ==
            IF strncasecmp(name, S("?"), strlen(name)) = 0 THEN "fetch_info"
            ELSE IF strncasecmp(name, S("help"), strlen(name)) = 0 THEN "fetch_info"
            ELSE IF strncasecmp(name, S("gpio"), strlen(name)) = 0 THEN "fetch_gpio"
            ELSE IF strncasecmp(name, S("resetpins"), strlen(name)) = 0 THEN "fetch_resetpins"
            ELSE "fetch_not_yet"
    IN  SubSeq([i \in 1..NELEMS(command_vocab) |-> fn(command_vocab[i])], 1,
               NELEMS(command_vocab))

\* (*cmd_fns[cindex])(chp, command_list, data_list)
CallHandler(fn, buf, command_list, ub) ==
    IF fn = "fetch_info" THEN fetch_info
    ELSE IF fn = "fetch_gpio" THEN fetch_gpio(buf, command_list, ub)
    ELSE IF fn = "fetch_resetpins" THEN fetch_resetpins
    ELSE fetch_not_yet

\* fetch_dispatch: the result, with the handler that was called ("none"
\* when no handler was)
fetch_dispatch_on(fns, buf, command_list, ub, c) ==
    IF c.halt
    THEN [res |-> Result("halt", <<>>, <<>>, TRUE, TRUE), handler |-> "none"]
    ELSE IF c.idx < 0
    THEN [res |-> Result("false", <<>>, <<"Unrecognized command.">>, c.null, FALSE),
          handler |-> "none"]
    ELSE [res |-> CallHandler(Rd(fns, c.idx), buf, command_list, ub),
          handler |-> Rd(fns, c.idx)]

fetch_dispatch(fns, buf, command_list, ub) ==
    fetch_dispatch_on(fns, buf, command_list, ub,
                      fetch_is_valid_command(buf, Rd(command_list, 0), ub))

----------------------------------------------------------------------------
(* fetch_parse *)

\* while ((lp = _strtok(NULL, delim, &tokp)) != NULL) { ... }: the loop that
\* fills toks[1..]; on overflow it reports, clears toks[0] and stops
RECURSIVE TokLoop(_, _, _, _, _)
RECURSIVE TokLoopBody(_, _, _, _)

\* the loop body, r being what _strtok returned
TokLoopBody(r, delim, n, toks) ==
    IF r.tok = NULLP
    THEN [buf |-> r.buf, toks |-> toks, n |-> n, overflow |-> FALSE]
    ELSE IF n >= FETCH_MAX_COMMANDS
    THEN [buf |-> r.buf, toks |-> Wr(toks, 0, NULLP), n |-> n,
          overflow |-> TRUE]
    ELSE TokLoop(r.buf, r.saveptr, delim, n + 1, Wr(toks, n + 1, r.tok))

TokLoop(buf, saveptr, delim, n, toks) ==
    TokLoopBody(_strtok(buf, NULLP, delim, saveptr), delim, n, toks)

\* toks[0] = _strtok(buf, delim, &tokp), then the loop
TokFirst(first, delim, toks) ==
    TokLoop(first.buf, first.saveptr, delim, 0, Wr(toks, 0, first.tok))

\* StoreEndMarker storing the end marker over the last token
StoreEndMarkerOverLast(loop) ==
    [buf |-> loop.buf,
     toks |-> Wr(loop.toks, loop.n, LIT),
     overflow |-> loop.overflow]

\* toks[++n] = "\0": the end marker stored behind the last token
StoreEndMarker(loop) ==
    [buf |-> loop.buf,
     toks |-> Wr(loop.toks, loop.n + 1, LIT),
     overflow |-> loop.overflow]

\* break a buffer into an array of strings: the first _strtok, the loop and
\* the end marker
Tokenize(buf, delim, toks) ==
    StoreEndMarker(TokFirst(_strtok(buf, 0, delim, NULLP), delim, toks))

TooMany(overflow) == IF overflow THEN <<"Too many commands.">> ELSE <<>>

\* What one call did: the return value ("true", "false", or "halt" when the
\* call never returns), the messages, whether fetch_dispatch was called, the
\* handler it called, the hardware calls, and whether fetch_token_match was
\* handed a NULL token.
Obs(ret, msgs, dispatched, handler, hw, nullmatch) ==
    [ret |-> ret, msgs |-> msgs, dispatched |-> dispatched, handler |-> handler,
     hw |-> hw, nullmatch |-> nullmatch, oob |-> FALSE]

NoObs == Obs("none", <<>>, FALSE, "none", <<>>, FALSE)

\* fetch_parse(chp, inputline) from the state st of the static data; ub is
\* the outcome of a NULL token (ub.null) and of an access outside a buffer
\* (ub.mem) in this build. Its steps, last one first:
\* the state and the observation the call leaves
fetch_parse_return(st, li, ct, dt, d) ==
    [st EXCEPT !.localinput = li,
               !.commandstr = ct.buf,
               !.datastr = dt.buf,
               !.command_toks = ct.toks,
               !.data_toks = dt.toks,
               !.halted = d.res.halt,
               !.obs = Obs(d.res.ret,
                           TooMany(ct.overflow) \o TooMany(dt.overflow)
                               \o d.res.msgs,
                           TRUE, d.handler, d.res.hw, d.res.nullmatch)]

\* return fetch_dispatch(chp, command_toks, data_toks)
fetch_parse_dispatch(st, li, ct, dt, ub) ==
    fetch_parse_return(st, li, ct, dt,
                       fetch_dispatch(st.cmd_fns, ct.buf, ct.toks, ub))

\* strncpy(buf, str, strlen(str)); buf[strlen(str)] = '\0'
CopyString(buf, str) == WrByte(strncpy(buf, str, strlen(str)), strlen(str), NUL)

\* the copies into commandstr and datastr, and the two token lists
fetch_parse_tokens(st, li, colonstr, parenpart, parenstr, ub) ==
    fetch_parse_dispatch(st, li,
        Tokenize(fetch_remove_spaces(CopyString(st.commandstr, colonstr)),
                 {":"}, st.command_toks),
        IF parenpart # NULLP
        THEN Tokenize(CopyString(st.datastr, parenstr), {" "}, st.data_toks)
        ELSE [buf |-> st.datastr, toks |-> Wr(st.data_toks, 0, NULLP),
              overflow |-> FALSE],
        ub)

\* colonpart and t2 (parenpart and the buffer) are the two _strtok results
fetch_parse_parts(st, colonpart, t2, ub) ==
    IF colonpart = NULLP
    THEN [st EXCEPT !.localinput = t2.buf,
                    !.obs = Obs("true", <<>>, FALSE, "none", <<>>, FALSE)]
    ELSE fetch_parse_tokens(st, t2.buf, CStr(t2.buf, colonpart), t2.tok,
                            IF t2.tok # NULLP THEN CStr(t2.buf, t2.tok) ELSE <<>>,
                            ub)

\* the access outside localinput stopped the system
OutOfBoundsFault(st, li) ==
    [st EXCEPT !.localinput = li,
               !.halted = TRUE,
               !.obs = [Obs("halt", <<>>, FALSE, "none", <<>>, FALSE)
                            EXCEPT !.oob = TRUE]]

\* t1 and t2 are the two _strtok results on localinput. When neither scan
\* left localinput, colonpart and parenpart are terminated inside it and so
\* are their copies in commandstr and datastr: the copying and the scans of
\* the copies stay inside the buffers.
fetch_parse_scanned(st, t1, t2, ub) ==
    IF (t1.oob \/ t2.oob) /\ ub.mem = "fault"
    THEN OutOfBoundsFault(st, t2.buf)
    ELSE [fetch_parse_parts(st, t1.tok, t2, ub) EXCEPT !.obs.oob = t1.oob \/ t2.oob]

\* parenpart = _strtok(NULL, "(", &tokp)
fetch_parse_split(st, t1, ub) ==
    fetch_parse_scanned(st, t1, _strtok(t1.buf, NULLP, {"("}, t1.saveptr), ub)

\* li0 is localinput holding the line
fetch_parse_line(st, li0, ub) ==
    IF ~(Rd(li0, 0) # "(" \/ Rd(li0, 0) = ")")
    THEN [st EXCEPT !.localinput = li0,
                    !.obs = Obs("false", <<"No command-(only data?)">>, FALSE,
                                "none", <<>>, FALSE)]
    ELSE fetch_parse_split(st, _strtok(li0, 0, {"("}, NULLP), ub)

fetch_parse(st, inputline, ub) ==
    fetch_parse_line(st, strncpy(st.localinput, inputline, FETCH_MAX_LINE_CHARS), ub)

----------------------------------------------------------------------------
(* The interpreter: fetch_init, then one fetch_parse call per input line *)

State == [localinput |-> localinput, commandstr |-> commandstr, datastr |-> datastr,
          command_toks |-> command_toks, data_toks |-> data_toks,
          cmd_fns |-> cmd_fns, halted |-> halted, obs |-> obs]

NoFns == Fill(NELEMS(command_vocab), "NULL")

NoMatchCall == [vocab |-> 1, tok |-> <<>>, called |-> FALSE, ret |-> -1]

Init ==
    /\ localinput = ZeroBuf
    /\ commandstr = ZeroBuf
    /\ datastr = ZeroBuf
    /\ command_toks = ZeroToks
    /\ data_toks = ZeroToks
    /\ cmd_fns = NoFns
    /\ halted = FALSE
    /\ line = <<>>
    /\ obs = NoObs
    /\ nlines = 0
    /\ tm = NoMatchCall

\* fetch_init(chp)
FetchInit ==
    /\ cmd_fns = NoFns
    /\ cmd_fns' = fetch_init_cmd_fns
    /\ UNCHANGED <<localinput, commandstr, datastr, command_toks, data_toks,
                   halted, line, obs, nlines, tm>>

\* the states one call can end in: the outcomes of a NULL token and of an
\* access outside a buffer are the only choices, so there is one end state
\* unless one of the two happened
OutcomesAfter(st, inputline, a) ==
    IF a.obs.nullmatch \/ a.obs.oob
    THEN {fetch_parse(st, inputline, [null |-> n, mem |-> m]) :
             n \in NullTokenOutcomes, m \in OutOfBoundsOutcomes}
    ELSE {a}

ParseOutcomes(st, inputline) ==
    OutcomesAfter(st, inputline,
                  fetch_parse(st, inputline, [null |-> "nomatch", mem |-> "nul"]))

\* one call fetch_parse(chp, inputline), made once fetch_init has run and
\* while the system has not been stopped
ParseLine(inputline) ==
    /\ cmd_fns # NoFns
    /\ ~halted
    /\ \E st \in ParseOutcomes(State, inputline) :
          /\ localinput' = st.localinput
          /\ commandstr' = st.commandstr
          /\ datastr' = st.datastr
          /\ command_toks' = st.command_toks
          /\ data_toks' = st.data_toks
          /\ halted' = st.halted
          /\ obs' = st.obs
    /\ line' = inputline
    /\ UNCHANGED <<cmd_fns, tm>>

----------------------------------------------------------------------------
(* Input lines *)

MaxLines == 2

\* s followed by the character c up to a length of n
Pad(s, n, c) == s \o Fill(n - Len(s), c)

\* lines around the size of the working buffers: one character less than
\* the buffer, exactly the buffer without and with a payload, the buffer
\* with two "(" near its start, and more than the buffer
LongLines ==
    {Pad(S("gpio:set:porta:pin1:"), FETCH_MAX_LINE_CHARS - 1, "a"),
     Pad(<<>>, FETCH_MAX_LINE_CHARS, "a"),
     Pad(S("gpio:set:porta:pin1("), FETCH_MAX_LINE_CHARS, "0"),
     Pad(S("help(b("), FETCH_MAX_LINE_CHARS, "c"),
     Pad(S("gpio:set:porta:pin1 "), FETCH_MAX_LINE_CHARS + FETCH_MAX_COMMANDS, " ")}

Lines ==
    {S(x) : x \in
        {"", "help", "?", "resetpins", "adc:start", "spi:a:b", "i2c:a:b:c:d",
         "a:b:c:d:e:f:g", "a:b:c:d:e:f:g:h", "a:b:c:d:e:f:g:h:i:j",
         "frobnicate", "gpiox", "hel", "(01 02)", ")01", " (01)",
         "gpio", "gpio:set", "gpio:set:porta",
         "gpio:toggle:porta:pin1", "gpio:set:portz:pin1", "gpio:set:porta:pin16",
         "gpio:set:portd:pin7", "GPIO:Get:PortA:pin10", "gpio : clear : porti : pin8",
         "gpio:set:porta:pin3(01 02 0a)",
         "gpio:set:porta:pin3(1 2 3 4 5 6 7 8 9)",
         "gpio:set:porta:pin3(1 2 3 4 5 6 7 8 9 a)",
         "gpio:set:porta:pin1:e:f:g:h:i",
         "gpio:configure:portd:pin7:input:floating",
         "gpio:configure:porta:pin1",
         "gpio:configure:porta:pin1:sideways:pullup",
         "gpio:configure:porta:pin1:input:wobbly"}}
    \cup LongLines

\* the interpreter is handed one line after the other
Parse ==
    \E inputline \in Lines :
        /\ nlines < MaxLines
        /\ ParseLine(inputline)
        /\ nlines' = nlines + 1

Next == FetchInit \/ Parse

Spec == Init /\ [][Next]_vars

----------------------------------------------------------------------------
(* The token matcher on its own: one call of fetch_token_match with a      *)
(* vocabulary of fetch_terminals and a candidate token                     *)

Vocabularies ==
    <<command_vocab, gpio_subcommandA, gpio_direction, gpio_sense,
      port_subcommand, pin_subcommand>>

toupper(c) ==
    IF \E i \in 1..26 : LowerChars[i] = c
    THEN UpperChars[CHOOSE i \in 1..26 : LowerChars[i] = c]
    ELSE c

LowerStr(s) == SubSeq([i \in 1..Len(s) |-> tolower(s[i])], 1, Len(s))
UpperStr(s) == SubSeq([i \in 1..Len(s) |-> toupper(s[i])], 1, Len(s))
MixedStr(s) ==
    SubSeq([i \in 1..Len(s) |-> IF i % 2 = 1 THEN toupper(s[i]) ELSE tolower(s[i])],
           1, Len(s))

Cased(s) == {LowerStr(s), UpperStr(s), MixedStr(s)}

VocabularyEntries ==
    UNION {{Vocabularies[v][i] : i \in 1..Len(Vocabularies[v])} :
              v \in 1..Len(Vocabularies)}

\* every entry in three letter cases, its proper prefixes, its extensions by
\* one character, and tokens that resemble no entry
Candidates ==
    UNION {Cased(e) \cup {SubSeq(e, 1, k) : k \in 0..(Len(e) - 1)}
                    \cup UNION {Cased(e \o <<x>>) : x \in {"0", "s", "x"}} :
              e \in VocabularyEntries}
    \cup {S("frobnicate"), S("resetpins-and-a-tail-past-the-cap"), S(":"), S(" ")}

InitMatch ==
    /\ localinput = ZeroBuf
    /\ commandstr = ZeroBuf
    /\ datastr = ZeroBuf
    /\ command_toks = ZeroToks
    /\ data_toks = ZeroToks
    /\ cmd_fns = NoFns
    /\ halted = FALSE
    /\ line = <<>>
    /\ obs = NoObs
    /\ nlines = 0
    /\ tm \in {[vocab |-> v, tok |-> c, called |-> FALSE, ret |-> -1] :
                  v \in 1..Len(Vocabularies), c \in Candidates}

MatchToken ==
    /\ ~tm.called
    /\ tm' = [tm EXCEPT !.called = TRUE,
                        !.ret = fetch_token_match(Vocabularies[tm.vocab], tm.tok,
                                                  NELEMS(Vocabularies[tm.vocab]))]
    /\ UNCHANGED <<localinput, commandstr, datastr, command_toks, data_toks,
                   cmd_fns, halted, line, obs, nlines>>

SpecMatch == InitMatch /\ [][MatchToken]_vars

\* the index (from 0) of the entry equal to c when letter case is ignored,
\* -1 when there is none
IndexIgnoringCase(V, c) ==
    IF \E i \in 1..Len(V) : LowerStr(V[i]) = LowerStr(c)
    THEN (CHOOSE i \in 1..Len(V) : LowerStr(V[i]) = LowerStr(c)) - 1
    ELSE -1

IsPinVocabulary(v) == Vocabularies[v] = pin_subcommand

\* C1: fetch_token_match returns the index of the entry that equals the
\* candidate case-insensitively over its whole length, and -1 when no entry
\* does; a proper prefix or extension of an entry does not match it, so
\* "pin1" gives 1 and "pin10" gives 10.
C1_TokenMatchExact ==
    tm.called =>
        /\ tm.ret = IndexIgnoringCase(Vocabularies[tm.vocab], tm.tok)
        /\ (IsPinVocabulary(tm.vocab) /\ tm.tok = S("pin1") => tm.ret = 1)
        /\ (IsPinVocabulary(tm.vocab) /\ tm.tok = S("pin10") => tm.ret = 10)

\* an upper-case pin token that has a shorter entry as its prefix is resolved
C1_Witness ==
    IsPinVocabulary(tm.vocab) /\ tm.tok = S("PIN10") /\ tm.called /\ tm.ret = 10

----------------------------------------------------------------------------
(* Reading an input line by the grammar, without the parser's buffers *)

\* the pieces of s between the occurrences of the character ch
RECURSIVE SplitOn(_, _)
SplitOn(s, ch) ==
    IF \E i \in 1..Len(s) : s[i] = ch
    THEN LET i == SetMin({j \in 1..Len(s) : s[j] = ch})
         IN  <<SubSeq(s, 1, i - 1)>> \o SplitOn(SubSeq(s, i + 1, Len(s)), ch)
    ELSE <<s>>

Has(s, ch) == \E i \in 1..Len(s) : s[i] = ch

IsEntry(V, tok) == IndexIgnoringCase(V, tok) >= 0

\* gpio:<action>:<port>:<pin> with the action among the given names
IsGpioStatement(ts, actions) ==
    /\ Len(ts) = 4
    /\ LowerStr(ts[1]) = S("gpio")
    /\ LowerStr(ts[2]) \in {S(a) : a \in actions}
    /\ IsEntry(port_subcommand, ts[3])
    /\ IsEntry(pin_subcommand, ts[4])

\* the hardware call the statement asks for
HwOp(action) ==
    IF LowerStr(action) = S("get") THEN "palReadPad"
    ELSE IF LowerStr(action) = S("set") THEN "palSetPad"
    ELSE "palClearPad"

Calls(op) == {i \in 1..Len(obs.hw) : obs.hw[i].op = op}

----------------------------------------------------------------------------
(* Every gpio get / set / clear statement, after some earlier lines *)

MaxHistory == 1

HistoryLines ==
    {S(x) : x \in {"gpio:configure:portd:pin7:input:floating",
                   "a:b:c:d:e:f:g:h:i:j",
                   "gpio:set:porta:pin3(01 02 0a)"}}

StatementLines ==
    UNION {Cased(S("gpio:") \o gpio_subcommandA[a] \o S(":") \o port_subcommand[p]
                 \o S(":") \o pin_subcommand[q]) :
              a \in 1..3, p \in 1..Len(port_subcommand), q \in 1..Len(pin_subcommand)}

ParseHistory ==
    \E inputline \in HistoryLines :
        /\ nlines < MaxHistory
        /\ ParseLine(inputline)
        /\ nlines' = nlines + 1

\* the statement is the last line of a run
ParseStatement ==
    \E inputline \in StatementLines :
        /\ nlines <= MaxHistory
        /\ ParseLine(inputline)
        /\ nlines' = MaxHistory + 1

NextGpio == FetchInit \/ ParseHistory \/ ParseStatement

SpecGpio == Init /\ [][NextGpio]_vars

\* C2: a statement gpio:<get|set|clear>:<port>:<pin>, in any letter case,
\* makes exactly one hardware call: read for get, write high for set, write
\* low for clear, on the port and the pin number the tokens name, and the
\* handler returns success.
C2_GpioStatementOneCall ==
    LET ts == SplitOn(line, ":")
    IN  IsGpioStatement(ts, {"get", "set", "clear"}) =>
            /\ obs.ret = "true"
            /\ obs.handler = "fetch_gpio"
            /\ obs.hw = <<HwCall(HwOp(ts[2]),
                                 GPIOPorts[IndexIgnoringCase(port_subcommand, ts[3]) + 1],
                                 IndexIgnoringCase(pin_subcommand, ts[4]),
                                 "-")>>

\* a two-digit pin of the last port is cleared after a six-token line
C2_Witness ==
    /\ line = S("GPIO:CLEAR:PORTI:PIN15")
    /\ Rd(command_toks, SENSE) # NULLP
    /\ obs.hw = <<HwCall("palClearPad", "GPIOI", 15, "-")>>
    /\ obs.ret = "true"

----------------------------------------------------------------------------
(* Properties of fetch_parse and fetch_dispatch, under Spec *)

Whitespace == {" ", "\t", "\n", "\r", "\f"}

\* the part of the line before its first "("
CommandPart(s) == SplitOn(s, "(")[1]

\* the text between the first "(" and a closing ")" at the end of the line
Payload(s) ==
    LET open == SetMin({j \in 1..Len(s) : s[j] = "("})
    IN  SubSeq(s, open + 1, Len(s) - 1)

HasPayload(s) == Len(s) > 2 /\ s[1] # "(" /\ Has(s, "(") /\ s[Len(s)] = ")"

\* the strings of a token list up to its end marker
RECURSIVE ListFrom(_, _, _)
ListFrom(buf, toks, i) ==
    IF Rd(toks, i) \in {NULLP, LIT} THEN <<>>
    ELSE <<Deref(buf, Rd(toks, i))>> \o ListFrom(buf, toks, i + 1)

DataItems == ListFrom(datastr, data_toks, 0)

Reported(msg) == \E i \in 1..Len(obs.msgs) : obs.msgs[i] = msg

\* C3: gpio:configure:<port>:<pin> without direction and sense tokens makes
\* the handler fail and makes no palSetPadMode call, whatever lines were
\* parsed before.
C3_ConfigureNeedsDirectionAndSense ==
    IsGpioStatement(SplitOn(line, ":"), {"configure"}) =>
        /\ obs.ret = "false"
        /\ Calls("palSetPadMode") = {}

\* C4: a command part of more than FETCH_MAX_COMMANDS tokens is reported as
\* "too many commands", no handler is called and fetch_parse returns
\* failure; a command part of at most FETCH_MAX_COMMANDS tokens is not
\* reported.
C4_TooManyTokensRejected ==
    LET k == Len(SplitOn(CommandPart(line), ":"))
    IN  obs.ret # "none" /\ Len(line) > 0 /\ line[1] # "(" =>
            /\ k > FETCH_MAX_COMMANDS =>
                   /\ Reported("Too many commands.")
                   /\ obs.handler = "none"
                   /\ obs.ret = "false"
            /\ k <= FETCH_MAX_COMMANDS => ~Reported("Too many commands.")

\* C5: a line whose first character is "(" or ")" is rejected with the
\* missing-command error: failure, and fetch_dispatch is not called.
C5_LeadingParenRejected ==
    Len(line) > 0 /\ line[1] \in {"(", ")"} =>
        /\ obs.ret = "false"
        /\ obs.msgs = <<"No command-(only data?)">>
        /\ ~obs.dispatched

\* C6: the data-token list of a line with a parenthesized payload is the
\* space-separated items between "(" and ")", in order.
C6_DataItemsBetweenParens ==
    HasPayload(line) /\ obs.dispatched /\ ~obs.nullmatch =>
        DataItems = SplitOn(Payload(line), " ")

\* k non-empty tokens joined by ":", 1 <= k <= FETCH_MAX_COMMANDS, no "(",
\* in a line that fits the working buffer with its terminator
IsPlainCommand(s) ==
    LET ts == SplitOn(s, ":")
    IN  /\ Len(s) < FETCH_MAX_LINE_CHARS
        /\ ~Has(s, "(")
        /\ \A i \in 1..Len(s) : s[i] \notin Whitespace
        /\ Len(ts) <= FETCH_MAX_COMMANDS
        /\ \A i \in 1..Len(ts) : ts[i] # <<>>

\* C7: for a line of k non-empty tokens joined by ":" (1 <= k <= 8, no "(",
\* shorter than the working buffer)
\* fetch_dispatch is handed a command-token list whose first k entries are
\* those tokens in input order, followed by the end marker, and a data-token
\* list whose first entry is NULL.
C7_CommandTokensInOrder ==
    LET ts == SplitOn(line, ":")
    IN  IsPlainCommand(line) =>
            /\ obs.dispatched
            /\ \A i \in 1..Len(ts) :
                   /\ Rd(command_toks, i - 1) \notin {NULLP, LIT}
                   /\ Deref(commandstr, Rd(command_toks, i - 1)) = ts[i]
            /\ Rd(command_toks, Len(ts)) = LIT
            /\ Rd(data_toks, 0) = NULLP

\* eight tokens are listed where a nine-token line stood before
C7_Witness ==
    /\ line = S("a:b:c:d:e:f:g:h")
    /\ obs.dispatched
    /\ Rd(command_toks, 8) = LIT
    /\ Rd(command_toks, 9) = LIT
    /\ Deref(commandstr, Rd(command_toks, 7)) = S("h")

\* C8: when the first command token matches no entry of the command
\* vocabulary, fetch_dispatch reports "unrecognized command", returns
\* failure and calls no handler: no hardware call, no help output.
C8_UnrecognizedCommand ==
    /\ obs.dispatched
    /\ Rd(command_toks, 0) # NULLP
    /\ ~IsEntry(command_vocab, Deref(commandstr, Rd(command_toks, 0)))
    => /\ obs.msgs = <<"Unrecognized command.">>
       /\ obs.ret = "false"
       /\ obs.handler = "none"
       /\ obs.hw = <<>>

\* a token that only starts with a command name is turned away
C8_Witness ==
    /\ line = S("gpiox")
    /\ obs.dispatched
    /\ obs.msgs = <<"Unrecognized command.">>
    /\ obs.ret = "false"
    /\ obs.handler = "none"

\* C9: a configure statement with valid port and pin whose direction is not
\* input / output, or whose sense is not pullup / pulldown / floating /
\* analog, fails and makes no palSetPadMode call.
C9_ConfigureValidatesMode ==
    LET ts == SplitOn(line, ":")
    IN  /\ Len(ts) = 6
        /\ IsGpioStatement(SubSeq(ts, 1, 4), {"configure"})
        /\ (~IsEntry(gpio_direction, ts[5]) \/ ~IsEntry(gpio_sense, ts[6]))
        => /\ obs.ret = "false"
           /\ Calls("palSetPadMode") = {}

\* C10: no input line is fatal: fetch_token_match is never handed a NULL
\* token, and fetch_parse returns.
C10_NoLineIsFatal ==
    /\ ~obs.nullmatch
    /\ obs.ret # "halt"
    /\ ~halted

\* C11: a payload of more than FETCH_MAX_COMMANDS space-separated items is
\* reported as "too many commands", no handler is called, no hardware call
\* is made and fetch_parse returns failure.
C11_DataOverflowRejected ==
    /\ HasPayload(line)
    /\ obs.ret # "none"
    /\ Len(SplitOn(Payload(line), " ")) > FETCH_MAX_COMMANDS
    => /\ Reported("Too many commands.")
       /\ obs.handler = "none"
       /\ obs.hw = <<>>
       /\ obs.ret = "false"

\* entry i of the command-token list handed to the handler is a token that
\* equals an entry of the vocabulary V
TokenIn(V, i) ==
    /\ Rd(command_toks, i) \notin {NULLP, LIT}
    /\ IsEntry(V, Deref(commandstr, Rd(command_toks, i)))

\* C12: fetch_gpio makes no hardware call and returns failure unless the
\* action, port and pin tokens each equal an entry of their vocabulary; the
\* statements "gpio", "gpio:set" and "gpio:set:porta" reach the handler and
\* fail there without a hardware call, whatever lines were parsed before.
C12_NoCallBeforeValidation ==
    /\ obs.handler = "fetch_gpio"
           /\ ~(/\ TokenIn(gpio_subcommandA, ACTION_TOK)
                /\ TokenIn(port_subcommand, PORT)
                /\ TokenIn(pin_subcommand, PIN))
           => obs.ret = "false" /\ obs.hw = <<>>
    /\ line \in {S("gpio"), S("gpio:set"), S("gpio:set:porta")}
           => obs.handler = "fetch_gpio" /\ obs.ret = "false" /\ obs.hw = <<>>

\* the pin token is missing where an earlier line left its own tokens
C12_Witness ==
    /\ line = S("gpio:set:porta")
    /\ obs.handler = "fetch_gpio"
    /\ obs.ret = "false"
    /\ obs.hw = <<>>
    /\ Rd(command_toks, PIN) = LIT
    /\ Rd(command_toks, DIRECTION) \notin {NULLP, LIT}

\* C13: whatever the length of the input line, no read or write of
\* localinput, commandstr or datastr is outside the buffer, and localinput
\* holds a copy of the line that is terminated inside the buffer.
C13_BufferAccessInBounds ==
    obs.ret # "none" =>
        /\ ~obs.oob
        /\ Rd(localinput, FETCH_MAX_LINE_CHARS - 1) = NUL

====
